---- MODULE Spec2Model ----
(***************************************************************************)
(* The asynchronous batch pipeline of oarepo_runtime/tasks/datastreams.py: *)
(* AsyncDataStream.process reads the readers and dispatches batches, each  *)
(* batch runs the chain transform* -> writers -> outcome on a worker, and  *)
(* AsyncDataStreamResult aggregates the per-batch results lazily.          *)
(***************************************************************************)
EXTENDS Integers, Sequences, FiniteSets, TLC

\* ------------------------------------------------------------------ bounds
MaxBatchSize == 2
MaxReaders == 1
MaxEntries == 2
MaxTransformers == 1
MaxWriters == 1
MaxReads == 3

\* bounds of the specifications that exercise one part of the pipeline
ReadMaxBatchSize == 3
ReadMaxReaders == 2
ReadMaxEntries == 5
TransformMaxBatch == 2
TransformMaxStages == 2
WriteMaxBatch == 2
WriteMaxTransformers == 1
WriteMaxWriters == 2
AggBatchSize == 1
AggMaxEntries == 3

\* Python's None in the aggregator's counters (never a count: counts are >= 0)
None == -1

VARIABLES
    batch_size,    \* AsyncDataStream.batch_size
    readers,       \* self._readers: the reader definitions and what they yield
    transformers,  \* self._transformers: the transformer definitions
    writers,       \* self._writers: the writer definitions
    pc,            \* where process is: "reading", "returned" or "raised"
    rd,            \* read_entries: index of the reader being drained (0: none yet)
    it,            \* read_entries: records already yielded by that reader
    batch,         \* process: the batch being accumulated
    results,       \* process: the dispatched chains, one AsyncResult each
    agg,           \* the AsyncDataStreamResult's private fields
    caller,        \* the accessor the caller is in, and prepare_result's position
    ret,           \* what the last accessor read gave the caller
    reads,         \* number of accessor reads started
    waits          \* the futures result.get() was called on, in call order

vars == <<batch_size, readers, transformers, writers, pc, rd, it, batch,
          results, agg, caller, ret, reads, waits>>

config == <<batch_size, readers, transformers, writers>>
orch == <<pc, rd, it, batch>>
aggr == <<agg, caller, ret, reads, waits>>

\* ------------------------------------------------------------- data model
\* StreamEntry as a reader creates it
NewEntry(id) == [id |-> id, errors |-> <<>>, filtered |-> FALSE]

RECURSIVE SumTo(_, _)
SumTo(f, n) == IF n = 0 THEN 0 ELSE f[n] + SumTo(f, n - 1)

\* a reader definition: whether get_instance resolves it, and its records
ReaderDef(known, sizes, r) ==
    [known |-> known[r],
     recs |-> [k \in 1..sizes[r] |-> NewEntry(SumTo(sizes, r - 1) + k)]]

\* the reader lists of at most maxReaders readers yielding at most maxTotal
\* entries together, each reader resolvable or not as flags allows
ReaderConfigs(maxReaders, maxTotal, flags) ==
    UNION {
        { [r \in 1..n |-> ReaderDef(known, sizes, r)] :
            sizes \in { f \in [1..n -> 0..maxTotal] : SumTo(f, n) <= maxTotal },
            known \in [1..n -> flags] }
        : n \in 1..maxReaders }

KindConfigs(maxLen, kinds) ==
    UNION { [1..n -> kinds] : n \in 0..maxLen }

\* what get_instance makes of a definition: a BatchTransformer / BatchWriter,
\* a per-entry component, or no component at all (get_instance raises)
Resolved == {"batch", "entry"}
TransformerKinds == Resolved \cup {"unknown"}
WriterKinds == Resolved \cup {"unknown"}

\* ----------------------------------------------------------- the chain
\* chain_def: one transformer stage per transformer, the writers stage, the
\* outcome stage
ChainDef ==
    [s \in 1..Len(transformers) |-> [task |-> "transformer", def |-> s]]
        \o << [task |-> "writers", def |-> 0] >>
        \o << [task |-> "outcome", def |-> 0] >>

\* an AsyncResult that holds no DataStreamResult (yet)
NoResult ==
    [ok_count |-> 0, failed_count |-> 0, skipped_count |-> 0, failed_entries |-> <<>>]

\* chain_sig.apply_async((batch,)): the chain's position and its AsyncResult
ApplyAsync(b) ==
    [args |-> b, entries |-> b, pos |-> 1, state |-> "PENDING",
     result |-> NoResult,
     tcalls |-> {}, wcalls |-> <<>>, cbcalls |-> <<>>, errbacks |-> 0]

\* ------------------------------------------------------------ AsyncDataStream.process
\* read_entries: the reader being drained has nothing more to yield
ReaderDrained == IF rd = 0 THEN TRUE ELSE it = Len(readers[rd].recs)

\* read_entries: the generator moves on to the next reader definition
NextReader ==
    /\ pc = "reading"
    /\ rd < Len(readers)
    /\ ReaderDrained
    /\ IF readers[rd + 1].known
         THEN /\ rd' = rd + 1
              /\ it' = 0
              /\ pc' = pc
         ELSE /\ pc' = "raised"
              /\ UNCHANGED <<rd, it>>
    /\ UNCHANGED <<config, batch, results, aggr>>

\* the entry put at the head of the batch
AppendEntry_Front(b, e) == <<e>> \o b

\* the body of the loop over read_entries() for one entry
AppendEntry(b, e) == Append(b, e)

\* the comparison written as "greater than"
BatchFull_Over(b) == Len(b) > batch_size

\* "if len(batch) == self.batch_size"
BatchFull(b) == Len(b) = batch_size

ReadEntry ==
    /\ pc = "reading"
    /\ rd >= 1
    /\ it < Len(readers[rd].recs)
    /\ it' = it + 1
    /\ LET b == AppendEntry(batch, readers[rd].recs[it + 1])
       IN IF BatchFull(b)
            THEN /\ results' = Append(results, ApplyAsync(b))
                 /\ batch' = <<>>
            ELSE /\ batch' = b
                 /\ results' = results
    /\ UNCHANGED <<config, pc, rd, aggr>>

\* whether the remainder is dispatched at the end of input
DispatchRemainder(b) == b # <<>>

\* process joining the dispatched chains before it dispatches the remainder
\* and returns
EndOfInput_Join ==
    /\ pc = "reading"
    /\ rd = Len(readers)
    /\ ReaderDrained
    /\ \A j \in 1..Len(results) : results[j].state # "PENDING"
    /\ waits' = [j \in 1..Len(results) |-> j]
    /\ IF DispatchRemainder(batch)
         THEN results' = Append(results, ApplyAsync(batch))
         ELSE results' = results
    /\ pc' = "returned"
    /\ UNCHANGED <<config, rd, it, batch, agg, caller, ret, reads>>

\* read_entries is exhausted: dispatch the remainder, return the aggregator
EndOfInput ==
    /\ pc = "reading"
    /\ rd = Len(readers)
    /\ ReaderDrained
    /\ IF DispatchRemainder(batch)
         THEN results' = Append(results, ApplyAsync(batch))
         ELSE results' = results
    /\ pc' = "returned"
    /\ UNCHANGED <<config, rd, it, batch, aggr>>

\* ------------------------------------------------------------ process_datastream_transformer
\* what one call of a per-entry transformer does, and what a batch transformer
\* does with each entry of the batch it is given
ApplyOutcomes == {"ok", "filter", "raise"}
BatchOutcomes == {"ok", "filter", "drop"}

\* transformer.apply(entry) returning normally
TransformerApply(e, o) ==
    IF o = "filter" THEN [e EXCEPT !.filtered = TRUE] ELSE e

\* transformer.apply_batch(entries) returning normally
RECURSIVE TransformerApplyBatch(_, _, _)
TransformerApplyBatch(entries, beh, i) ==
    IF i > Len(entries) THEN <<>>
    ELSE (IF beh[i] = "drop" THEN <<>>
          ELSE << TransformerApply(entries[i], beh[i]) >>)
         \o TransformerApplyBatch(entries, beh, i + 1)

\* f"Transformer {transformer_definition} error: ..."
TransformerErrorMsg(t) == [by |-> "Transformer", def |-> t]

\* a call of a transformer as the entry sees it: the stage, how the
\* transformer was called, the entry given to it and how the call ended
TransformerCall(t, mode, e, o) ==
    [stage |-> t, mode |-> mode, id |-> e.id, errors |-> e.errors, outcome |-> o]

\* the except branch without result.append(entry)
OnTransformerError_Dropped(result, e, t) == result

\* the except branch marking every entry handled so far
OnTransformerError_WholeBatch(result, e, t) ==
    [i \in 1..Len(result) + 1 |->
        IF i <= Len(result)
          THEN [result[i] EXCEPT !.errors = Append(@, TransformerErrorMsg(t))]
          ELSE [e EXCEPT !.errors = Append(@, TransformerErrorMsg(t))]]

\* the except branch of the per-entry loop
OnTransformerError(result, e, t) ==
    Append(result, [e EXCEPT !.errors = Append(@, TransformerErrorMsg(t))])

\* one iteration of the per-entry loop: result.append(transformer.apply(entry)),
\* or the except branch
TransformEntry(st, e, t, o) ==
    [result |-> IF o = "raise"
                  THEN OnTransformerError(st.result, e, t)
                  ELSE Append(st.result, TransformerApply(e, o)),
     calls |-> st.calls \cup {TransformerCall(t, "entry", e, o)}]

\* the per-entry loop from entry i on
RECURSIVE TransformEntries(_, _, _, _, _)
TransformEntries(entries, t, beh, i, st) ==
    IF i > Len(entries) THEN st
    ELSE TransformEntries(entries, t, beh, i + 1,
                          TransformEntry(st, entries[i], t, beh[i]))

\* the entries transformer.apply_batch(entries) is given
BatchTransformerCalls(entries, t, o) ==
    { TransformerCall(t, "batch", entries[i], o) : i \in 1..Len(entries) }

\* a failure that takes every pending chain down with it
ChainFailed_Every(j) ==
    [k \in 1..Len(results) |->
        IF results[k].state = "PENDING"
          THEN [results[k] EXCEPT !.state = "FAILURE", !.errbacks = @ + 1]
          ELSE results[k]]

\* a stage of the chain raised: the chain stops, link_error's callback fires
ChainFailed(j) ==
    [results EXCEPT ![j].state = "FAILURE", ![j].errbacks = @ + 1]

TransformStage(j) ==
    /\ results[j].state = "PENDING"
    /\ ChainDef[results[j].pos].task = "transformer"
    /\ LET t == ChainDef[results[j].pos].def
           entries == results[j].entries
       IN \/ /\ transformers[t] = "unknown"
             /\ results' = ChainFailed(j)
          \/ /\ transformers[t] = "batch"
             /\ \/ results' = [ChainFailed(j) EXCEPT
                     ![j].tcalls = @ \cup BatchTransformerCalls(entries, t, "raise")]
                \/ \E beh \in [1..Len(entries) -> BatchOutcomes] :
                     results' = [results EXCEPT
                         ![j].entries = TransformerApplyBatch(entries, beh, 1),
                         ![j].tcalls = @ \cup BatchTransformerCalls(entries, t, "ok"),
                         ![j].pos = @ + 1]
          \/ /\ transformers[t] = "entry"
             /\ \E beh \in [1..Len(entries) -> ApplyOutcomes] :
                  LET st == TransformEntries(entries, t, beh, 1,
                                             [result |-> <<>>, calls |-> {}])
                  IN results' = [results EXCEPT
                         ![j].entries = st.result,
                         ![j].tcalls = @ \cup st.calls,
                         ![j].pos = @ + 1]
    /\ UNCHANGED <<config, orch, aggr>>

\* ------------------------------------------------------------ process_datastream_writers
\* what one call of a writer does: it returns, raises WriterError, or raises
\* another exception
WriteOutcomes == {"ok", "WriterError", "Exception"}

\* the test without "not x.errors"
Survives_ErrorsIgnored(e) == ~e.filtered

\* "not x.errors and not x.filtered"
Survives(e) == e.errors = <<>> /\ ~e.filtered

\* f"Writer {wd} error: ..."
WriterErrorMsg(w) == [by |-> "Writer", def |-> w]

\* the loop without its try/except
Caught_Nothing(o) == FALSE

\* which exceptions of writer.write the per-entry loop catches
Caught(o) == o = "WriterError"

\* the state of the loops of the writers stage: the entries, the calls made
\* to the writers so far, and whether an exception has left the task
WriteCall(w, mode, seen, o) ==
    [writer |-> w, mode |-> mode, seen |-> seen, outcome |-> o]

\* writer.write(entry) with outcome o, inside try/except WriterError
WriteEntry(st, w, i, o) ==
    [entries |-> IF Caught(o)
                   THEN [st.entries EXCEPT ![i].errors = Append(@, WriterErrorMsg(w))]
                   ELSE st.entries,
     calls |-> Append(st.calls, WriteCall(w, "entry", << st.entries[i] >>, o)),
     raised |-> (o # "ok" /\ ~Caught(o))]

\* the per-entry loop of writer w from entry i on, over every outcome the
\* writer's calls can have
RECURSIVE WriteEntries(_, _, _, _)
WriteEntries(S, w, i, n) ==
    IF i > n THEN S
    ELSE WriteEntries(
            UNION { IF st.raised \/ ~Survives(st.entries[i])
                      THEN {st}
                      ELSE { WriteEntry(st, w, i, o) : o \in WriteOutcomes }
                    : st \in S },
            w, i + 1, n)

\* writer.write_batch(the surviving entries): nothing it raises is caught
WriteBatch(st, w) ==
    { [st EXCEPT
         !.calls = Append(@, WriteCall(w, "batch", SelectSeq(st.entries, Survives), o)),
         !.raised = (o # "ok")] : o \in WriteOutcomes }

\* the loop over writer_definitions from writer w on
RECURSIVE RunWriters(_, _, _)
RunWriters(S, w, n) ==
    IF w > Len(writers) THEN S
    ELSE RunWriters(
            UNION { IF st.raised THEN {st}
                    ELSE IF writers[w] = "unknown" THEN {[st EXCEPT !.raised = TRUE]}
                    ELSE IF writers[w] = "batch" THEN WriteBatch(st, w)
                    ELSE WriteEntries({st}, w, 1, n)
                    : st \in S },
            w + 1, n)

WritersStage(j) ==
    /\ results[j].state = "PENDING"
    /\ ChainDef[results[j].pos].task = "writers"
    /\ LET entries == results[j].entries
       IN \E st \in RunWriters({[entries |-> entries, calls |-> <<>>, raised |-> FALSE]},
                               1, Len(entries)) :
            IF st.raised
              THEN results' = [ChainFailed(j) EXCEPT ![j].entries = st.entries,
                                                     ![j].wcalls = st.calls]
              ELSE results' = [results EXCEPT ![j].entries = st.entries,
                                              ![j].wcalls = st.calls,
                                              ![j].pos = @ + 1]
    /\ UNCHANGED <<config, orch, aggr>>

\* ------------------------------------------------------------ process_datastream_outcome
\* DataStreamResult(...)
DataStreamResult(ok, failed, skipped, failedEntries) ==
    [ok_count |-> ok, failed_count |-> failed, skipped_count |-> skipped,
     failed_entries |-> failedEntries]

\* the filtered flag tested before the errors
Classify_FilteredFirst(e) ==
    IF e.filtered THEN "skipped"
    ELSE IF e.errors # <<>> THEN "failed"
    ELSE "ok"

\* how the loop classifies an entry
Classify(e) ==
    IF e.errors # <<>> THEN "failed"
    ELSE IF e.filtered THEN "skipped"
    ELSE "ok"

\* the loop applying success_callback to every entry
CallbackFor_NeverError(e) == "success_callback"

\* the callback the loop applies to an entry
CallbackFor(e) == IF e.errors # <<>> THEN "error_callback" ELSE "success_callback"

\* one iteration of the loop over the entries
OutcomeEntry(acc, e) ==
    LET c == Classify(e)
    IN [ok_count |-> acc.ok_count + (IF c = "ok" THEN 1 ELSE 0),
        failed_count |-> acc.failed_count + (IF c = "failed" THEN 1 ELSE 0),
        skipped_count |-> acc.skipped_count + (IF c = "skipped" THEN 1 ELSE 0),
        failed_entries |-> IF c = "failed" THEN Append(acc.failed_entries, e)
                           ELSE acc.failed_entries]

\* the loop over the first n entries
RECURSIVE OutcomeLoop(_, _)
OutcomeLoop(entries, n) ==
    IF n = 0 THEN DataStreamResult(0, 0, 0, <<>>)
    ELSE OutcomeEntry(OutcomeLoop(entries, n - 1), entries[n])

\* the callbacks applied to the first n entries
CallbackCalls(entries, n) ==
    [i \in 1..n |-> [callback |-> CallbackFor(entries[i]), id |-> entries[i].id]]

\* k = 0: no callback raises; k > 0: the callback applied to entry k raises
OutcomeStage(j) ==
    /\ results[j].state = "PENDING"
    /\ ChainDef[results[j].pos].task = "outcome"
    /\ LET entries == results[j].entries
       IN \E k \in 0..Len(entries) :
            IF k > 0
              THEN results' = [ChainFailed(j) EXCEPT
                                 ![j].cbcalls = CallbackCalls(entries, k)]
              ELSE results' = [results EXCEPT
                                 ![j].cbcalls = CallbackCalls(entries, Len(entries)),
                                 ![j].result = OutcomeLoop(entries, Len(entries)),
                                 ![j].state = "SUCCESS",
                                 ![j].pos = @ + 1]
    /\ UNCHANGED <<config, orch, aggr>>

\* ------------------------------------------------------------ AsyncDataStreamResult
Counters == {"ok_count", "failed_count", "skipped_count"}

\* the private field a counter property returns
CounterValue(a, acc) == a[acc]

\* prepare_result without its early return
Prepared_Never(a) == FALSE

\* prepare_result's early return
Prepared(a) == a.ok_count # None

\* prepare_result's reset of the counters before the loop
ResetCounters(a) ==
    [a EXCEPT !.ok_count = 0, !.failed_count = 0, !.skipped_count = 0]

\* the loop body without the line that adds d.skipped_count
AddResult_SkippedLost(a, d) ==
    [ok_count |-> a.ok_count + d.ok_count,
     failed_count |-> a.failed_count + d.failed_count,
     skipped_count |-> a.skipped_count,
     failed_entries |-> a.failed_entries \o d.failed_entries]

\* the body of prepare_result's loop for a per-batch result d
AddResult(a, d) ==
    [ok_count |-> a.ok_count + d.ok_count,
     failed_count |-> a.failed_count + d.failed_count,
     skipped_count |-> a.skipped_count + d.skipped_count,
     failed_entries |-> a.failed_entries \o d.failed_entries]

Returned(acc, v) == [acc |-> acc, outcome |-> "value", value |-> v, entries |-> <<>>]
Raised(acc) == [acc |-> acc, outcome |-> "raise", value |-> 0, entries |-> <<>>]

\* the caller reads ok_count, failed_count or skipped_count: the property
\* calls prepare_result, which returns at once when the counters are set
ReadCounter(acc) ==
    /\ pc = "returned"
    /\ caller.pc = "idle"
    /\ reads < MaxReads
    /\ reads' = reads + 1
    /\ IF Prepared(agg)
         THEN /\ ret' = Returned(acc, CounterValue(agg, acc))
              /\ UNCHANGED <<agg, caller>>
         ELSE /\ agg' = ResetCounters(agg)
              /\ caller' = [pc |-> "preparing", acc |-> acc, i |-> 1]
              /\ ret' = ret
    /\ UNCHANGED <<config, orch, results, waits>>

\* the loop going on to the next future when get() raises
GetResult_SkipFailed ==
    /\ caller.pc = "preparing"
    /\ caller.i <= Len(results)
    /\ results[caller.i].state # "PENDING"
    /\ waits' = Append(waits, caller.i)
    /\ agg' = IF results[caller.i].state = "SUCCESS"
                THEN AddResult(agg, results[caller.i].result)
                ELSE agg
    /\ caller' = [caller EXCEPT !.i = @ + 1]
    /\ UNCHANGED <<config, orch, results, ret, reads>>

\* the loop calling get() on whichever future has ended, in completion order
GetResult_AnyDone ==
    /\ caller.pc = "preparing"
    /\ caller.i <= Len(results)
    /\ \E j \in 1..Len(results) :
          /\ \A k \in 1..Len(waits) : waits[k] # j
          /\ results[j].state # "PENDING"
          /\ waits' = Append(waits, j)
          /\ IF results[j].state = "SUCCESS"
               THEN /\ agg' = AddResult(agg, results[j].result)
                    /\ caller' = [caller EXCEPT !.i = @ + 1]
                    /\ ret' = ret
               ELSE /\ caller' = [pc |-> "idle", acc |-> "none", i |-> 0]
                    /\ ret' = Raised(caller.acc)
                    /\ agg' = agg
    /\ UNCHANGED <<config, orch, results, reads>>

\* d = result.get() on the next future: it blocks until the chain has ended,
\* returns the outcome stage's DataStreamResult, and raises when a task of the
\* chain failed
GetResult ==
    /\ caller.pc = "preparing"
    /\ caller.i <= Len(results)
    /\ results[caller.i].state # "PENDING"
    /\ waits' = Append(waits, caller.i)
    /\ IF results[caller.i].state = "SUCCESS"
         THEN /\ agg' = AddResult(agg, results[caller.i].result)
              /\ caller' = [caller EXCEPT !.i = @ + 1]
              /\ ret' = ret
         ELSE /\ caller' = [pc |-> "idle", acc |-> "none", i |-> 0]
              /\ ret' = Raised(caller.acc)
              /\ agg' = agg
    /\ UNCHANGED <<config, orch, results, reads>>

\* prepare_result's loop is over: the property returns its counter
ReturnCounter ==
    /\ caller.pc = "preparing"
    /\ caller.i > Len(results)
    /\ ret' = Returned(caller.acc, CounterValue(agg, caller.acc))
    /\ caller' = [pc |-> "idle", acc |-> "none", i |-> 0]
    /\ UNCHANGED <<config, orch, results, agg, reads, waits>>

\* what the failed_entries property returns
FailedEntriesValue(a) == a.failed_entries

\* the caller reads failed_entries
ReadFailedEntries ==
    /\ pc = "returned"
    /\ caller.pc = "idle"
    /\ reads < MaxReads
    /\ reads' = reads + 1
    /\ ret' = [acc |-> "failed_entries", outcome |-> "value", value |-> 0,
               entries |-> FailedEntriesValue(agg)]
    /\ UNCHANGED <<config, orch, results, agg, caller, waits>>

\* ------------------------------------------------------------ specifications
InitWith(sizes, rcfgs, tcfgs, wcfgs) ==
    /\ batch_size \in sizes
    /\ readers \in rcfgs
    /\ transformers \in tcfgs
    /\ writers \in wcfgs
    /\ pc = "reading"
    /\ rd = 0
    /\ it = 0
    /\ batch = <<>>
    /\ results = <<>>
    /\ agg = [ok_count |-> None, failed_count |-> None, skipped_count |-> None,
              failed_entries |-> <<>>]
    /\ caller = [pc |-> "idle", acc |-> "none", i |-> 0]
    /\ ret = [acc |-> "none", outcome |-> "none", value |-> 0, entries |-> <<>>]
    /\ reads = 0
    /\ waits = <<>>

InitRead ==
    InitWith(1..ReadMaxBatchSize, ReaderConfigs(ReadMaxReaders, ReadMaxEntries, BOOLEAN),
             {<<>>}, {<<>>})

\* the whole pipeline, small
Init ==
    InitWith(1..MaxBatchSize, ReaderConfigs(MaxReaders, MaxEntries, BOOLEAN),
             KindConfigs(MaxTransformers, TransformerKinds),
             KindConfigs(MaxWriters, WriterKinds))

Process == NextReader \/ ReadEntry \/ EndOfInput

Caller ==
    \/ \E acc \in Counters : ReadCounter(acc)
    \/ GetResult
    \/ ReturnCounter
    \/ ReadFailedEntries

Next ==
    \/ Process
    \/ \E j \in 1..Len(results) : TransformStage(j)
    \/ \E j \in 1..Len(results) : WritersStage(j)
    \/ \E j \in 1..Len(results) : OutcomeStage(j)
    \/ Caller

Spec == Init /\ [][Next]_vars

\* the orchestrator alone, on more readers and entries
NextRead == NextReader \/ ReadEntry \/ EndOfInput

SpecRead == InitRead /\ [][NextRead]_vars

\* one batch through a chain of more transform stages and no writer, every
\* definition resolvable
InitTransform ==
    InitWith({TransformMaxBatch}, ReaderConfigs(1, TransformMaxBatch, {TRUE}),
             KindConfigs(TransformMaxStages, Resolved), {<<>>})

\* one batch through a chain of more writers, every definition resolvable
InitWrite ==
    InitWith({WriteMaxBatch}, ReaderConfigs(1, WriteMaxBatch, {TRUE}),
             KindConfigs(WriteMaxTransformers, Resolved),
             KindConfigs(WriteMaxWriters, Resolved))

NextChain ==
    \/ Process
    \/ \E j \in 1..Len(results) : TransformStage(j)
    \/ \E j \in 1..Len(results) : WritersStage(j)
    \/ \E j \in 1..Len(results) : OutcomeStage(j)

SpecTransform == InitTransform /\ [][NextChain]_vars

SpecWrite == InitWrite /\ [][NextChain]_vars

\* several batches of one reader through a chain of at most one transform
\* stage and no writer, and the caller reading the aggregator
InitAggregate ==
    InitWith({AggBatchSize}, ReaderConfigs(1, AggMaxEntries, {TRUE}),
             KindConfigs(1, TransformerKinds), {<<>>})

SpecAggregate == InitAggregate /\ [][Next]_vars

\* the workers run the tasks of the dispatched chains
Workers ==
    \/ \E j \in 1..Len(results) : TransformStage(j)
    \/ \E j \in 1..Len(results) : WritersStage(j)
    \/ \E j \in 1..Len(results) : OutcomeStage(j)

\* the same, with the workers taking up the tasks that are waiting and the
\* caller's thread running on when result.get() can return
SpecAggregateFair ==
    /\ InitAggregate
    /\ [][Next]_vars
    /\ WF_vars(Workers)
    /\ WF_vars(GetResult)
    /\ WF_vars(ReturnCounter)

\* several batches of one reader through a chain of at most one transform
\* stage and at most one writer, resolvable or not
InitBatches ==
    InitWith({AggBatchSize}, ReaderConfigs(1, AggMaxEntries, {TRUE}),
             KindConfigs(1, TransformerKinds), KindConfigs(1, WriterKinds))

SpecBatches == InitBatches /\ [][NextChain]_vars

\* ------------------------------------------------------------ properties
Ceil(n, b) == (n + b - 1) \div b

RECURSIVE SumLens(_, _)
SumLens(seqs, n) == IF n = 0 THEN 0 ELSE Len(seqs[n]) + SumLens(seqs, n - 1)

ReaderRecs == [r \in 1..Len(readers) |-> readers[r].recs]

\* the entries read_entries has yielded so far
EntriesRead == IF rd = 0 THEN 0 ELSE SumLens(ReaderRecs, rd - 1) + it

\* the batches given to apply_async, in dispatch order
Dispatched == [j \in 1..Len(results) |-> results[j].args]

\* C1: every dispatched batch has between 1 and batch_size entries and only
\* the last one may have fewer than batch_size; the entries read so far are
\* those of the dispatched batches and of the batch being accumulated; and when
\* process returns after N entries, it has dispatched ceil(N / batch_size)
\* batches whose sizes sum to N (none when N = 0).
C1_Batching ==
    /\ \A j \in 1..Len(results) :
          /\ Len(results[j].args) >= 1
          /\ Len(results[j].args) <= batch_size
          /\ j < Len(results) => Len(results[j].args) = batch_size
    /\ pc = "reading" =>
          SumLens(Dispatched, Len(results)) + Len(batch) = EntriesRead
    /\ pc = "returned" =>
          /\ EntriesRead = SumLens(ReaderRecs, Len(readers))
          /\ SumLens(Dispatched, Len(results)) = EntriesRead
          /\ Len(results) = Ceil(EntriesRead, batch_size)

\* process has returned after dispatching full batches and a short last one,
\* with entries of two readers
C1_Witness ==
    /\ pc = "returned"
    /\ Len(results) >= 2
    /\ Len(results[Len(results)].args) < batch_size
    /\ batch_size >= 2
    /\ Len(readers) = 2
    /\ \A r \in 1..Len(readers) : Len(readers[r].recs) >= 1

HasErrors(e) == e.errors # <<>>

\* positions of a batch whose entry satisfies P
Positions(entries, P(_)) == { i \in 1..Len(entries) : P(entries[i]) }

IsSkipped(e) == e.errors = <<>> /\ e.filtered
IsOk(e) == e.errors = <<>> /\ ~e.filtered

\* C2: the result of an outcome stage counts as failed exactly the entries of
\* its batch with non-empty errors, and holds them in failed_entries in batch
\* order; it counts as skipped exactly the entries with empty errors and
\* filtered set; it counts as ok exactly the others; so each entry is counted
\* once.
C2_Classification ==
    \A j \in 1..Len(results) :
        results[j].state = "SUCCESS" =>
            LET es == results[j].entries
                r == results[j].result
            IN /\ r.failed_count = Cardinality(Positions(es, HasErrors))
               /\ r.failed_entries = SelectSeq(es, HasErrors)
               /\ r.skipped_count = Cardinality(Positions(es, IsSkipped))
               /\ r.ok_count = Cardinality(Positions(es, IsOk))
               /\ r.ok_count + r.failed_count + r.skipped_count = Len(es)

\* an outcome stage has classified a batch with an entry that is both errored
\* and filtered and an entry that is only filtered
C2_Witness ==
    \E j \in 1..Len(results) :
        /\ results[j].state = "SUCCESS"
        /\ \E i \in 1..Len(results[j].entries) :
              /\ results[j].entries[i].errors # <<>>
              /\ results[j].entries[i].filtered
        /\ results[j].result.skipped_count = 1
        /\ results[j].result.failed_count = 1

\* every dispatched chain has ended with a per-batch result
AllSucceeded == \A j \in 1..Len(results) : results[j].state = "SUCCESS"

\* every dispatched chain has ended, with a per-batch result or by a failure
AllEnded == \A j \in 1..Len(results) : results[j].state # "PENDING"

\* the failed entries of the first n per-batch results, in the order of the
\* futures
RECURSIVE FailedOfBatches(_)
FailedOfBatches(n) ==
    IF n = 0 THEN <<>>
    ELSE FailedOfBatches(n - 1)
         \o (IF results[n].state = "SUCCESS" THEN results[n].result.failed_entries
             ELSE <<>>)

\* the sum of a counter over the first n futures' per-batch results
RECURSIVE SumOfBatches(_, _)
SumOfBatches(acc, n) ==
    IF n = 0 THEN 0
    ELSE SumOfBatches(acc, n - 1)
         + (IF results[n].state = "SUCCESS" THEN results[n].result[acc] ELSE 0)

\* the step in which the failed_entries property returns
FailedEntriesRead ==
    /\ reads' = reads + 1
    /\ caller' = caller
    /\ ret'.acc = "failed_entries"

\* the step in which a counter property returns a value
CounterReturned ==
    /\ ret'.acc \in Counters
    /\ ret'.outcome = "value"
    /\ \/ reads' = reads + 1 /\ caller' = caller
       \/ caller.pc = "preparing" /\ caller'.pc = "idle"

\* C3: a read of failed_entries made when every batch has its per-batch result
\* returns the failed entries of all batches in the order of the futures,
\* whatever accessors were read before it.
C3_FailedEntriesOfEveryBatch ==
    [][(FailedEntriesRead /\ AllSucceeded)
         => ret'.entries = FailedOfBatches(Len(results))]_vars

\* C4: a counter read that returns when every chain has ended returns the sum
\* of that counter over all per-batch results.
C4_CountersAreSums ==
    [][(CounterReturned /\ AllEnded)
         => ret'.value = SumOfBatches(ret'.acc, Len(results))]_vars

\* C5: a read of ok_count, failed_count or skipped_count never raises to the
\* caller, also when a chain ended through the chain-level error handler.
C5_CounterReadsNeverRaise ==
    ~(ret.outcome = "raise" /\ ret.acc \in Counters)

\* chain j is at a transform stage
AtTransformer(j) ==
    /\ results[j].state = "PENDING"
    /\ ChainDef[results[j].pos].task = "transformer"

\* the transformer definition of the stage chain j is at
StageDef(j) == ChainDef[results[j].pos].def

\* the step in which the transform stage of chain j ran
TransformRan(j) == AtTransformer(j) /\ results'[j] # results[j]

\* the step in which the transform stage of chain j returned a batch
TransformReturned(j) == AtTransformer(j) /\ results'[j].pos = results[j].pos + 1

\* no transformer or writer has been called with an entry that had errors
NoCallOnErrored ==
    \A j \in 1..Len(results) :
        /\ \A c \in results[j].tcalls : c.errors = <<>>
        /\ \A k \in 1..Len(results[j].wcalls) :
              \A i \in 1..Len(results[j].wcalls[k].seen) :
                 results[j].wcalls[k].seen[i].errors = <<>>

\* no step of a chain leaves an entry that had errors without errors
ErrorsKept ==
    \A j \in 1..Len(results) :
        \A i \in 1..Len(results[j].entries) :
            \A k \in 1..Len(results'[j].entries) :
                (/\ results'[j].entries[k].id = results[j].entries[i].id
                 /\ results[j].entries[i].errors # <<>>)
                    => results'[j].entries[k].errors # <<>>

\* C6: once an entry has errors, no stage clears them and no later
\* transformer or writer is called with the entry.
C6_ErroredEntriesLeftAlone == [][ErrorsKept /\ NoCallOnErrored']_vars

\* C7: a per-entry transform stage always returns its batch (an exception of
\* transformer.apply does not fail the stage); every entry of the batch was
\* given to the transformer and is in the output at its position; and the
\* stage's error message is appended to the errors of exactly the entries whose
\* own call raised, every other entry keeping its errors as they were.
C7_TransformerErrorIsolated ==
    [][\A j \in 1..Len(results) :
          (TransformRan(j) /\ transformers[StageDef(j)] = "entry") =>
             LET t == StageDef(j)
                 in == results[j].entries
                 out == results'[j].entries
             IN /\ results'[j].state = "PENDING"
                /\ results'[j].pos = results[j].pos + 1
                /\ Len(out) = Len(in)
                /\ \A i \in 1..Len(in) :
                      /\ out[i].id = in[i].id
                      /\ \E c \in results'[j].tcalls :
                            /\ c.stage = t
                            /\ c.id = in[i].id
                            /\ c.errors = in[i].errors
                            /\ out[i].errors =
                                 IF c.outcome = "raise"
                                   THEN Append(in[i].errors,
                                               [by |-> "Transformer", def |-> t])
                                   ELSE in[i].errors]_vars

\* a per-entry transformer raised on one entry of a batch and not on another:
\* the first has the stage's error, the second has none
C7_Witness ==
    \E j \in 1..Len(results) :
        /\ results[j].pos = 2
        /\ Len(transformers) >= 1
        /\ transformers[1] = "entry"
        /\ Len(results[j].entries) = 2
        /\ results[j].entries[1].errors = <<>>
        /\ results[j].entries[2].errors = << [by |-> "Transformer", def |-> 1] >>
        /\ \E c \in results[j].tcalls : c.id = results[j].entries[1].id /\ c.outcome # "raise"
        /\ \E c \in results[j].tcalls : c.id = results[j].entries[2].id /\ c.outcome = "raise"

\* C8 as stated: every transform stage that returns, returns a batch of the
\* cardinality of its input.
C8_CardinalityKept ==
    [][\A j \in 1..Len(results) :
          TransformReturned(j) =>
             Len(results'[j].entries) = Len(results[j].entries)]_vars

\* C8 amended: a transform stage with a per-entry transformer returns a batch
\* of the cardinality of its input, holding the input's entries in their order.
C8_PerEntryCardinalityKept ==
    [][\A j \in 1..Len(results) :
          (TransformReturned(j) /\ transformers[StageDef(j)] = "entry") =>
             /\ Len(results'[j].entries) = Len(results[j].entries)
             /\ \A i \in 1..Len(results[j].entries) :
                   results'[j].entries[i].id = results[j].entries[i].id]_vars

\* two per-entry transform stages have returned a batch of two entries, one
\* marked filtered and one marked errored
C8_Witness ==
    \E j \in 1..Len(results) :
        /\ results[j].pos > Len(transformers)
        /\ transformers = <<"entry", "entry">>
        /\ Len(results[j].args) = 2
        /\ Len(results[j].entries) = 2
        /\ \E i \in 1..2 : results[j].entries[i].errors # <<>>
        /\ \E i \in 1..2 : results[j].entries[i].filtered

\* the calls of writer w in chain j's writers stage
CallsOf(j, w) ==
    { k \in 1..Len(results[j].wcalls) : results[j].wcalls[k].writer = w }

\* the ids of the entries a call of a writer was given
SeenIds(c) == { c.seen[i].id : i \in 1..Len(c.seen) }

\* C9: the calls of the writers are in the declared order of the writers;
\* every entry given to a writer, alone or in a batch, has no errors and is not
\* filtered when the writer is called; and an entry on which a writer's call
\* ended in a caught WriterError is given to no later call.
C9_WritersSeeSurvivors ==
    \A j \in 1..Len(results) :
        LET wc == results[j].wcalls
        IN /\ \A k \in 1..Len(wc) :
                 \A i \in 1..Len(wc[k].seen) :
                    /\ wc[k].seen[i].errors = <<>>
                    /\ ~wc[k].seen[i].filtered
           /\ \A k1, k2 \in 1..Len(wc) :
                 k1 < k2 =>
                    /\ wc[k1].writer <= wc[k2].writer
                    /\ (wc[k1].mode = "entry" /\ wc[k1].outcome = "WriterError")
                          => SeenIds(wc[k1]) \cap SeenIds(wc[k2]) = {}

\* with two writers and a batch of two entries, one of them filtered or
\* errored before the stage, the first writer raised WriterError on the other
\* entry and the second writer was called with no entry
C9_Witness ==
    \E j \in 1..Len(results) :
        /\ Len(writers) = 2
        /\ Len(results[j].args) = 2
        /\ Len(results[j].wcalls) = 2
        /\ results[j].wcalls[1].writer = 1
        /\ results[j].wcalls[1].outcome = "WriterError"
        /\ results[j].wcalls[2].writer = 2
        /\ results[j].wcalls[2].seen = <<>>
        /\ \E i \in 1..2 : results[j].entries[i].filtered

\* the entries of chain j that a call of writer w was given have the writer's
\* error message and were given to no later writer
FailedByWriter(j, w) ==
    \A k \in CallsOf(j, w) :
        \A id \in SeenIds(results[j].wcalls[k]) :
            /\ \E i \in 1..Len(results[j].entries) :
                  /\ results[j].entries[i].id = id
                  /\ results[j].entries[i].errors = << [by |-> "Writer", def |-> w] >>
            /\ \A k2 \in 1..Len(results[j].wcalls) :
                  results[j].wcalls[k2].writer > w
                     => id \notin SeenIds(results[j].wcalls[k2])
            /\ results[j].state = "SUCCESS" =>
                  \E i \in 1..Len(results[j].result.failed_entries) :
                     results[j].result.failed_entries[i].id = id

\* C10 as stated: when every call of a writer raised, the writers stage
\* returns and every entry the writer was given is failed with the writer's
\* error message and is given to no later writer.
C10_RaisingWriterFailsEntries ==
    \A j \in 1..Len(results) :
        \A w \in 1..Len(writers) :
            (/\ CallsOf(j, w) # {}
             /\ \A k \in CallsOf(j, w) : results[j].wcalls[k].outcome # "ok")
                => /\ results[j].pos > Len(transformers) + 1
                   /\ FailedByWriter(j, w)

\* C10 amended: when every call of a per-entry writer raised WriterError,
\* every entry the writer was given has the writer's error message, is given
\* to no later writer, and is among the failed entries of the per-batch
\* result when the chain produces one.
C10_WriterErrorFailsEntries ==
    \A j \in 1..Len(results) :
        \A w \in 1..Len(writers) :
            (/\ writers[w] = "entry"
             /\ CallsOf(j, w) # {}
             /\ \A k \in CallsOf(j, w) : results[j].wcalls[k].outcome = "WriterError")
                => FailedByWriter(j, w)

\* the first of two writers raised WriterError on both entries of a batch, and
\* the outcome stage counted both as failed
C10_Witness ==
    \E j \in 1..Len(results) :
        /\ Len(writers) = 2
        /\ writers[1] = "entry"
        /\ Cardinality(CallsOf(j, 1)) = 2
        /\ \A k \in CallsOf(j, 1) : results[j].wcalls[k].outcome = "WriterError"
        /\ results[j].state = "SUCCESS"
        /\ results[j].result.failed_count = 2

\* the ids of the entries of chain j that got an entry-level error: a call of
\* a per-entry transformer on the entry raised, or a call of a per-entry
\* writer on it raised WriterError
EntryLevelErrored(j) ==
    { c.id : c \in { x \in results[j].tcalls :
                        x.mode = "entry" /\ x.outcome = "raise" } }
    \cup UNION { SeenIds(results[j].wcalls[k]) :
                   k \in { n \in 1..Len(results[j].wcalls) :
                             /\ results[j].wcalls[n].mode = "entry"
                             /\ results[j].wcalls[n].outcome = "WriterError" } }

\* the entry with this id was passed to error_callback by chain j's outcome
\* stage and is counted and held in the chain's per-batch result
ReportedFailed(j, id) ==
    /\ \E k \in 1..Len(results[j].cbcalls) :
          /\ results[j].cbcalls[k].callback = "error_callback"
          /\ results[j].cbcalls[k].id = id
    /\ results[j].state = "SUCCESS"
    /\ results[j].result.failed_count >= 1
    /\ \E i \in 1..Len(results[j].result.failed_entries) :
          results[j].result.failed_entries[i].id = id

\* C11: once a batch's chain has ended, every entry of the batch that got an
\* entry-level error in a transform or write stage has been passed to
\* error_callback and is counted in failed_count and held in failed_entries
\* of the batch's result.
C11_EntryErrorsReachOutcome ==
    \A j \in 1..Len(results) :
        results[j].state # "PENDING" =>
            \A id \in EntryLevelErrored(j) : ReportedFailed(j, id)

\* the stages of chain j that have not run
RemainingStages(j) == Len(ChainDef) + 1 - results[j].pos

\* the step in which a stage of chain j raised
StageFailed(j) == results[j].state = "PENDING" /\ results'[j].state = "FAILURE"

\* chain j's next stage can run
CanRun(j) == ENABLED (TransformStage(j) \/ WritersStage(j) \/ OutcomeStage(j))

\* C12: a stage that raises ends its own chain with the stages after it not
\* run and the chain-level error handler fired once for that chain, and
\* leaves every other chain as it was; a chain that has ended runs no further
\* stage; the error handler has fired once for a failed chain and never for
\* another; a chain with a per-batch result has run all of its stages; and a
\* pending chain's next stage can run whatever became of the other chains.
C12_FailureStaysInItsBatch ==
    /\ [][\A j \in 1..Len(results) :
             /\ StageFailed(j) =>
                   /\ results'[j].pos = results[j].pos
                   /\ results'[j].errbacks = 1
                   /\ results'[j].result = results[j].result
                   /\ \A k \in 1..Len(results) : k # j => results'[k] = results[k]
             /\ results[j].state # "PENDING" => results'[j] = results[j]]_vars
    /\ [](\A j \in 1..Len(results) :
             /\ results[j].errbacks = (IF results[j].state = "FAILURE" THEN 1 ELSE 0)
             /\ results[j].state = "FAILURE" => RemainingStages(j) >= 1
             /\ results[j].state = "SUCCESS" => RemainingStages(j) = 0
             /\ results[j].state = "PENDING" => CanRun(j))

\* of three batches, the transform stage of the second raised: its writers
\* and outcome stages did not run and the error handler fired once for it,
\* while the first and the third batch have their per-batch results
C12_Witness ==
    /\ Len(results) = 3
    /\ results[2].state = "FAILURE"
    /\ RemainingStages(2) = 3
    /\ results[2].errbacks = 1
    /\ results[2].cbcalls = <<>>
    /\ \A k \in {1, 3} :
          /\ results[k].state = "SUCCESS"
          /\ results[k].errbacks = 0
          /\ Len(results[k].cbcalls) = Len(results[k].entries)

\* the step in which the caller starts a read of a counter
CounterReadStarts ==
    /\ reads' = reads + 1
    /\ caller'.pc = "preparing" \/ ret'.acc \in Counters

\* a counter read has started before
CountersSet == agg.ok_count # None

\* C13: no future is waited on twice; no future is waited on and no counter
\* value is returned before the first counter read; a counter read that is
\* not the first returns at once the total held for its counter, waiting on
\* nothing and changing no total; and when no pass is running the totals stay
\* as they are, so that a counter read again returns the value it returned.
C13_AggregatesOnce ==
    /\ [](\A a, b \in 1..Len(waits) : a # b => waits[a] # waits[b])
    /\ [](~CountersSet => waits = <<>> /\ ret.acc \notin Counters)
    /\ [][(CounterReadStarts /\ CountersSet) =>
             /\ waits' = waits
             /\ agg' = agg
             /\ caller' = caller
             /\ ret'.outcome = "value"
             /\ ret'.value = agg[ret'.acc]
             /\ (ret.acc = ret'.acc /\ ret.outcome = "value")
                   => ret'.value = ret.value]_vars
    /\ [][(CountersSet /\ caller.pc = "idle") => agg' = agg /\ waits' = waits]_vars

\* after a pass over three futures, a third accessor read has returned the
\* total of a counter, and each future was waited on once
C13_Witness ==
    /\ reads = 3
    /\ caller.pc = "idle"
    /\ ret.acc = "failed_count"
    /\ ret.outcome = "value"
    /\ ret.value = 2
    /\ waits = <<1, 2, 3>>

\* chain j's outcome stage has run: it returned the per-batch result, or a
\* callback it applied raised
OutcomeRan(j) ==
    /\ results[j].state # "PENDING"
    /\ results[j].pos >= Len(ChainDef)

\* the first n entries of chain j's batch got one callback each, in batch
\* order: error_callback with errors, success_callback without
CalledBack(j, n) ==
    /\ Len(results[j].cbcalls) = n
    /\ n <= Len(results[j].entries)
    /\ \A i \in 1..n :
          /\ results[j].cbcalls[i].id = results[j].entries[i].id
          /\ results[j].cbcalls[i].callback =
                IF results[j].entries[i].errors # <<>>
                  THEN "error_callback" ELSE "success_callback"

\* C14 as stated: an outcome stage that has run has applied exactly one
\* callback to each entry of its batch, error_callback to the entries with
\* errors and success_callback to the others.
C14_OneCallbackPerEntry ==
    \A j \in 1..Len(results) :
        OutcomeRan(j) => CalledBack(j, Len(results[j].entries))

\* C14 amended: an outcome stage that returns its per-batch result has
\* applied exactly one callback to each entry of its batch, error_callback to
\* the entries with errors and success_callback to the others; a stage ended
\* by a raising callback has done so for the entries up to the one whose
\* callback raised and has applied no callback to the entries after it; no
\* stage before the outcome stage applies a callback.
C14_OneCallbackPerEntryReached ==
    \A j \in 1..Len(results) :
        /\ results[j].state = "SUCCESS" => CalledBack(j, Len(results[j].entries))
        /\ (results[j].state = "FAILURE" /\ OutcomeRan(j)) =>
              /\ Len(results[j].cbcalls) >= 1
              /\ CalledBack(j, Len(results[j].cbcalls))
        /\ ~OutcomeRan(j) => results[j].cbcalls = <<>>

\* an outcome stage has returned its result for a batch of an errored entry
\* and a filtered one: error_callback was applied to the first and
\* success_callback to the second
C14_Witness ==
    \E j \in 1..Len(results) :
        /\ results[j].state = "SUCCESS"
        /\ Len(results[j].entries) = 2
        /\ results[j].entries[1].errors # <<>>
        /\ results[j].entries[2].errors = <<>>
        /\ results[j].entries[2].filtered
        /\ results[j].cbcalls =
              << [callback |-> "error_callback", id |-> results[j].entries[1].id],
                 [callback |-> "success_callback", id |-> results[j].entries[2].id] >>

\* a step of AsyncDataStream.process
ProcessStep == pc = "reading" /\ <<pc, rd, it, batch>>' # <<pc, rd, it, batch>>

\* C15: while process runs it can always take its next step, whatever the
\* state of the chains it has dispatched; its steps wait on no future, mark no
\* future as waited on and leave the dispatched chains as they are; and no
\* future is waited on until process has returned and the caller has started
\* its first counter read.
C15_ProcessNeverWaits ==
    /\ [](pc = "reading" => ENABLED (NextReader \/ ReadEntry \/ EndOfInput))
    /\ [](pc # "returned" => waits = <<>> /\ reads = 0 /\ caller.pc = "idle")
    /\ []((waits # <<>> \/ caller.pc = "preparing") => (reads >= 1 /\ agg.ok_count # None))
    /\ [][ProcessStep =>
             /\ waits' = waits
             /\ <<agg, caller, ret, reads>>' = <<agg, caller, ret, reads>>
             /\ \A j \in 1..Len(results) : results'[j] = results[j]]_vars

\* process has returned after dispatching three batches, of which the first
\* had its per-batch result before process returned or after and the last has
\* not started; no accessor has been read and no future has been waited on
C15_Witness ==
    /\ pc = "returned"
    /\ Len(results) = 3
    /\ results[1].state = "SUCCESS"
    /\ results[3].state = "PENDING"
    /\ results[3].pos = 1
    /\ reads = 0
    /\ waits = <<>>

\* the concatenation of the first n sequences of a sequence of sequences
RECURSIVE Concat(_, _)
Concat(seqs, n) == IF n = 0 THEN <<>> ELSE Concat(seqs, n - 1) \o seqs[n]

\* the entries of all readers, in declaration order
AllRecs == Concat(ReaderRecs, Len(readers))

\* the entries read_entries has yielded so far, in the order it yielded them
Yielded ==
    IF rd = 0 THEN <<>>
    ELSE Concat(ReaderRecs, rd - 1) \o SubSeq(readers[rd].recs, 1, it)

\* C16: the entries read so far are those of the readers before the current
\* one, whole and in declaration order, followed by the current reader's
\* first entries; until process returns, the dispatched batches in dispatch
\* order followed by the batch being accumulated are exactly these entries in
\* this order; when process returns, the dispatched batches in dispatch order
\* are the readers' sequences one after the other; so every entry read is in
\* one batch, once.
C16_ReadersInOrder ==
    /\ Yielded = SubSeq(AllRecs, 1, Len(Yielded))
    /\ pc # "returned" => Concat(Dispatched, Len(results)) \o batch = Yielded
    /\ pc = "returned" =>
          /\ Yielded = AllRecs
          /\ Concat(Dispatched, Len(results)) = AllRecs
          /\ \A i, k \in 1..Len(AllRecs) : i # k => AllRecs[i].id # AllRecs[k].id

\* process has returned after reading two readers of two and three entries in
\* batches of three: the first batch holds entries of both readers
C16_Witness ==
    /\ pc = "returned"
    /\ batch_size = 3
    /\ Len(readers) = 2
    /\ Len(readers[1].recs) = 2
    /\ Len(readers[2].recs) = 3
    /\ Len(results) = 2
    /\ results[1].args = readers[1].recs \o << readers[2].recs[1] >>
    /\ results[2].args = SubSeq(readers[2].recs, 2, 3)

\* C17: process never raises to its caller, and no accessor of the
\* aggregator raises to its caller.
C17_NothingRaisesToCaller ==
    /\ pc # "raised"
    /\ ret.outcome # "raise"

\* C18: the futures are waited on in enumeration order, one at a time: the
\* futures waited on are always the first ones, a pass that is at future i has
\* waited on the i - 1 before it, and a wait ends only on a future whose chain
\* has ended; and a counter read that has started its pass ends, and ends
\* with a value, after a wait on every future, when every chain has ended
\* with a per-batch result.
C18_CounterReadReturns ==
    /\ [](waits = [k \in 1..Len(waits) |-> k])
    /\ [](caller.pc = "preparing" => Len(waits) = caller.i - 1)
    /\ [][waits' # waits =>
             /\ caller.pc = "preparing"
             /\ waits' = Append(waits, caller.i)
             /\ results[caller.i].state # "PENDING"]_vars
    /\ (caller.pc = "preparing") ~>
          (/\ caller.pc = "idle"
           /\ (\A j \in 1..Len(results) : results[j].state = "SUCCESS") =>
                 /\ ret.outcome = "value"
                 /\ ret.acc \in Counters
                 /\ Len(waits) = Len(results))

\* a counter read has got the first future's result and is blocked on the
\* second, whose chain has not ended, while the third future's chain has
C18_Witness ==
    /\ caller.pc = "preparing"
    /\ Len(results) = 3
    /\ caller.i = 2
    /\ waits = <<1>>
    /\ results[2].state = "PENDING"
    /\ results[3].state = "SUCCESS"

\* the aggregation pass has run to its end over per-batch results only
PassComplete ==
    /\ agg.ok_count # None
    /\ caller.pc = "idle"
    /\ \A j \in 1..Len(results) : results[j].state = "SUCCESS"

\* every chain handed to its outcome stage as many entries as it was given
CardinalityPreserved ==
    \A j \in 1..Len(results) : Len(results[j].entries) = Len(results[j].args)

\* no entry handed to an outcome stage has errors or is filtered
NothingMarked ==
    \A j \in 1..Len(results) :
        \A i \in 1..Len(results[j].entries) :
            /\ results[j].entries[i].errors = <<>>
            /\ ~results[j].entries[i].filtered

\* C19: in each per-batch result the three counts sum to the number of
\* entries handed to the outcome stage and failed_count is the length of
\* failed_entries; and after a pass over a run in which every chain returned
\* its result and handed on as many entries as it was given, the three
\* totals sum to the number of entries read, with ok_count that number and
\* the other two 0 when no entry was marked.
C19_EntriesConserved ==
    /\ \A j \in 1..Len(results) :
          results[j].state = "SUCCESS" =>
             /\ results[j].result.ok_count + results[j].result.failed_count
                   + results[j].result.skipped_count = Len(results[j].entries)
             /\ results[j].result.failed_count = Len(results[j].result.failed_entries)
    /\ (PassComplete /\ CardinalityPreserved) =>
          /\ agg.ok_count + agg.failed_count + agg.skipped_count = EntriesRead
          /\ EntriesRead = SumLens(ReaderRecs, Len(readers))
          /\ NothingMarked =>
                /\ agg.ok_count = EntriesRead
                /\ agg.failed_count = 0
                /\ agg.skipped_count = 0

\* a pass has summed the results of three batches of one entry each, read
\* from a reader of three entries: one ok, one failed and one skipped
C19_Witness ==
    /\ PassComplete
    /\ CardinalityPreserved
    /\ EntriesRead = 3
    /\ Len(results) = 3
    /\ agg.ok_count = 1
    /\ agg.failed_count = 1
    /\ agg.skipped_count = 1
    /\ ret.outcome = "value"

\* the positions in waits of the waits that raised
FailedWaits == { k \in 1..Len(waits) : results[waits[k]].state = "FAILURE" }

\* a pass has been interrupted by a wait that raised, and no pass is running
Interrupted == caller.pc = "idle" /\ FailedWaits # {}

\* the future whose wait raised first
FailingFuture == waits[CHOOSE k \in FailedWaits : \A n \in FailedWaits : k <= n]

\* C20: once a wait has raised, that wait is the last one made: no future is
\* waited on afterwards and no total changes; the totals and failed_entries
\* are those of the futures enumerated before the failing one, whatever the
\* later futures hold; and every later counter read returns at once the total
\* held for its counter.
C20_InterruptedPassStaysPartial ==
    /\ [](Interrupted =>
             /\ waits[Len(waits)] = FailingFuture
             /\ \A c \in Counters : agg[c] = SumOfBatches(c, FailingFuture - 1)
             /\ agg.failed_entries = FailedOfBatches(FailingFuture - 1))
    /\ [][Interrupted =>
             /\ waits' = waits
             /\ agg' = agg
             /\ caller' = caller
             /\ reads' # reads =>
                   \/ ret'.acc = "failed_entries" /\ ret'.entries = agg.failed_entries
                   \/ /\ ret'.acc \in Counters
                      /\ ret'.outcome = "value"
                      /\ ret'.value = agg[ret'.acc]]_vars

\* of three batches with one ok entry each, the second chain failed: the
\* first counter read raised at the second future, and a later read of
\* ok_count has returned 1, the third future's result never waited on
C20_Witness ==
    /\ Len(results) = 3
    /\ results[1].state = "SUCCESS"
    /\ results[2].state = "FAILURE"
    /\ results[3].state = "SUCCESS"
    /\ results[1].result.ok_count = 1
    /\ results[3].result.ok_count = 1
    /\ waits = <<1, 2>>
    /\ reads >= 2
    /\ ret = [acc |-> "ok_count", outcome |-> "value", value |-> 1, entries |-> <<>>]

====
